---- MODULE Spec2Model ----
(***************************************************************************)
(* Model of the order-book streaming client (WebSocketClient and its main): *)
(* the callback chain resolve -> connect -> ssl_handshake -> handshake ->   *)
(* write -> read*, the subscription request, the message pump with its     *)
(* JSON parse / pretty-print, and the error sink.                          *)
(*                                                                         *)
(* Text is a sequence of one-character strings.  A Json::Value is a record *)
(* tagged by its type.  Each completion handler is one action: the io      *)
(* context runs handlers one at a time on one thread.                      *)
(***************************************************************************)
EXTENDS Integers, Sequences, FiniteSets, TLC

(***************************************************************************)
(* Bounds of the model.                                                    *)
(***************************************************************************)
\* number of read completions explored
MaxReads == 2

\* the units of time one step of the clock takes
TickStep == 10

(***************************************************************************)
(* Text helpers.                                                           *)
(***************************************************************************)
\* the characters that occur in the model, in ASCII order
Ascii ==
  << "\t", "\n", " ", "\"", ",", "-", ".", "/", "0", "1", "2", "3", "7", ":",
     "B", "C", "E", "H", "T", "[", "\\", "]",
     "a", "b", "c", "d", "e", "f", "h", "i", "j", "k", "l", "m", "n", "o",
     "p", "r", "s", "t", "u", "x", "{", "}" >>

Code(c) == CHOOSE i \in 1..Len(Ascii) : Ascii[i] = c

Digits == << "0", "1", "2", "3", "4", "5", "6", "7", "8", "9" >>

IsDigit(c) == \E i \in 1..10 : Digits[i] = c

DigitVal(c) == (CHOOSE i \in 1..10 : Digits[i] = c) - 1

IsSpace(c) == c \in {" ", "\t", "\n", "\r"}

\* s[i..j-1]
Slice(s, i, j) == SubSeq(s, i, j - 1)

\* memcmp-then-length order of std::map<CZString, Value>
RECURSIVE TextLess(_, _)
TextLess(a, b) ==
  IF b = <<>> THEN FALSE
  ELSE IF a = <<>> THEN TRUE
  ELSE IF Code(Head(a)) < Code(Head(b)) THEN TRUE
  ELSE IF Code(Head(a)) > Code(Head(b)) THEN FALSE
  ELSE TextLess(Tail(a), Tail(b))

\* the keys of a map in iteration order
RECURSIVE SortedKeys(_)
SortedKeys(ks) ==
  IF ks = {} THEN <<>>
  ELSE LET k == CHOOSE x \in ks : \A y \in ks \ {x} : TextLess(x, y)
       IN  <<k>> \o SortedKeys(ks \ {k})

\* std::to_string of a non-negative integer
RECURSIVE ToText(_)
ToText(n) ==
  IF n < 10 THEN <<Digits[n + 1]>>
  ELSE ToText(n \div 10) \o <<Digits[(n % 10) + 1]>>

(***************************************************************************)
(* Json::Value                                                             *)
(***************************************************************************)
NullV == [t |-> "null"]
BoolV(b) == [t |-> "bool", b |-> b]
IntV(n) == [t |-> "int", n |-> n]
StrV(s) == [t |-> "string", s |-> s]
ArrV(a) == [t |-> "array", a |-> a]
ObjV(m) == [t |-> "object", m |-> m]

EmptyMap == [k \in {} |-> NullV]

\* Value::operator[](key) used as an lvalue on an object
SetMember(m, k, v) == [x \in (DOMAIN m) \cup {k} |-> IF x = k THEN v ELSE m[x]]

(***************************************************************************)
(* Json::Reader (default features: any value may be the root, nothing is   *)
(* required after the root value).  The model covers the tokens that occur *)
(* in Payloads: structural characters, strings with the escapes \" \\ \n,  *)
(* integers, and the literals true, false and null.                        *)
(***************************************************************************)
\* Reader::skipSpaces
RECURSIVE SkipSpaces(_, _)
SkipSpaces(s, i) ==
  IF i <= Len(s) /\ IsSpace(s[i]) THEN SkipSpaces(s, i + 1) ELSE i

\* Reader::readString: the index after the closing quote, 0 when there is none
RECURSIVE ReadString(_, _)
ReadString(s, i) ==
  IF i > Len(s) THEN 0
  ELSE IF s[i] = "\\" THEN ReadString(s, i + 2)
  ELSE IF s[i] = "\"" THEN i + 1
  ELSE ReadString(s, i + 1)

\* Reader::readNumber: the index after the digits
RECURSIVE ReadNumber(_, _)
ReadNumber(s, i) ==
  IF i <= Len(s) /\ IsDigit(s[i]) THEN ReadNumber(s, i + 1) ELSE i

\* Reader::match
Match(s, i, pattern) ==
  /\ i + Len(pattern) - 1 <= Len(s)
  /\ Slice(s, i, i + Len(pattern)) = pattern

Tok(type, b, e) == [type |-> type, b |-> b, e |-> e]

\* Reader::readToken: the token that starts at or after i
ReadToken(s, i) ==
  LET b == SkipSpaces(s, i) IN
  IF b > Len(s) THEN Tok("endOfStream", b, b)
  ELSE LET c == s[b] IN
    CASE c = "{" -> Tok("objectBegin", b, b + 1)
      [] c = "}" -> Tok("objectEnd", b, b + 1)
      [] c = "[" -> Tok("arrayBegin", b, b + 1)
      [] c = "]" -> Tok("arrayEnd", b, b + 1)
      [] c = "," -> Tok("arraySeparator", b, b + 1)
      [] c = ":" -> Tok("memberSeparator", b, b + 1)
      [] c = "\"" ->
           LET e == ReadString(s, b + 1) IN
           IF e = 0 THEN Tok("error", b, Len(s) + 1) ELSE Tok("string", b, e)
      [] IsDigit(c) \/ c = "-" -> Tok("number", b, ReadNumber(s, b + 1))
      [] c = "t" ->
           IF Match(s, b + 1, <<"r", "u", "e">>)
           THEN Tok("true", b, b + 4) ELSE Tok("error", b, b + 1)
      [] c = "f" ->
           IF Match(s, b + 1, <<"a", "l", "s", "e">>)
           THEN Tok("false", b, b + 5) ELSE Tok("error", b, b + 1)
      [] c = "n" ->
           IF Match(s, b + 1, <<"u", "l", "l">>)
           THEN Tok("null", b, b + 4) ELSE Tok("error", b, b + 1)
      [] OTHER -> Tok("error", b, b + 1)

\* Reader::decodeString on the characters between the quotes
RECURSIVE DecodeString(_)
DecodeString(s) ==
  IF s = <<>> THEN [ok |-> TRUE, s |-> <<>>]
  ELSE IF Head(s) = "\\" THEN
    IF Len(s) < 2 THEN [ok |-> FALSE, s |-> <<>>]
    ELSE LET esc == s[2]
             rest == DecodeString(SubSeq(s, 3, Len(s)))
             put(c) == [ok |-> rest.ok, s |-> <<c>> \o rest.s]
         IN  CASE esc = "\"" -> put("\"")
               [] esc = "\\" -> put("\\")
               [] esc = "/" -> put("/")
               [] esc = "n" -> put("\n")
               [] esc = "t" -> put("\t")
               [] OTHER -> [ok |-> FALSE, s |-> <<>>]
  ELSE LET rest == DecodeString(Tail(s))
       IN  [ok |-> rest.ok, s |-> <<Head(s)>> \o rest.s]

\* Reader::decodeNumber on an integer token: an optional '-', then digits
RECURSIVE DecodeDigits(_, _)
DecodeDigits(s, acc) ==
  IF s = <<>> THEN acc ELSE DecodeDigits(Tail(s), acc * 10 + DigitVal(Head(s)))

DecodeNumber(s) ==
  IF Head(s) = "-" THEN 0 - DecodeDigits(Tail(s), 0) ELSE DecodeDigits(s, 0)

Res(ok, val, pos) == [ok |-> ok, val |-> val, pos |-> pos]

Bad == Res(FALSE, NullV, 0)

\* Reader::readValue, readObject and readArray.  ReadValue parses the value
\* that starts at or after i; ok is false on every path on which the Reader
\* records an error, pos is the index after the value.
RECURSIVE ReadValue(_, _)
RECURSIVE ReadObject(_, _, _, _)
RECURSIVE ReadArray(_, _, _)
ReadValue(s, i) ==
  LET tk == ReadToken(s, i) IN
  CASE tk.type = "objectBegin" -> ReadObject(s, tk.e, EmptyMap, <<>>)
    [] tk.type = "arrayBegin" ->
         LET b == SkipSpaces(s, tk.e) IN
         IF b <= Len(s) /\ s[b] = "]" THEN Res(TRUE, ArrV(<<>>), b + 1)
         ELSE ReadArray(s, tk.e, <<>>)
    [] tk.type = "number" ->
         Res(TRUE, IntV(DecodeNumber(Slice(s, tk.b, tk.e))), tk.e)
    [] tk.type = "string" ->
         LET d == DecodeString(Slice(s, tk.b + 1, tk.e - 1)) IN
         IF d.ok THEN Res(TRUE, StrV(d.s), tk.e) ELSE Bad
    [] tk.type = "true" -> Res(TRUE, BoolV(TRUE), tk.e)
    [] tk.type = "false" -> Res(TRUE, BoolV(FALSE), tk.e)
    [] tk.type = "null" -> Res(TRUE, NullV, tk.e)
    [] OTHER -> Bad

\* the loop of readObject: m holds the members read so far, name the last
\* member name decoded (empty before the first)
ReadObject(s, i, m, name) ==
  LET tk == ReadToken(s, i) IN
  IF tk.type = "objectEnd" /\ name = <<>> THEN Res(TRUE, ObjV(m), tk.e)
  ELSE IF tk.type # "string" THEN Bad
  ELSE
    LET d == DecodeString(Slice(s, tk.b + 1, tk.e - 1)) IN
    IF ~d.ok THEN Bad
    ELSE
      LET colon == ReadToken(s, tk.e) IN
      IF colon.type # "memberSeparator" THEN Bad
      ELSE
        LET v == ReadValue(s, colon.e) IN
        IF ~v.ok THEN Bad
        ELSE
          LET comma == ReadToken(s, v.pos)
              m2 == SetMember(m, d.s, v.val)
          IN  IF comma.type = "objectEnd" THEN Res(TRUE, ObjV(m2), comma.e)
              ELSE IF comma.type = "arraySeparator"
                   THEN ReadObject(s, comma.e, m2, d.s)
              ELSE Bad

\* the loop of readArray: a holds the elements read so far
ReadArray(s, i, a) ==
  LET v == ReadValue(s, i) IN
  IF ~v.ok THEN Bad
  ELSE
    LET tk == ReadToken(s, v.pos)
        a2 == Append(a, v.val)
    IN  IF tk.type = "arrayEnd" THEN Res(TRUE, ArrV(a2), tk.e)
        ELSE IF tk.type = "arraySeparator" THEN ReadArray(s, tk.e, a2)
        ELSE Bad

\* Reader::parse(document, root)
Parse(data) == ReadValue(data, 1)

(***************************************************************************)
(* Json::FastWriter and Json::StyledWriter                                 *)
(***************************************************************************)
\* valueToQuotedString
RECURSIVE Escaped(_)
Escaped(s) ==
  IF s = <<>> THEN <<>>
  ELSE LET c == Head(s) IN
       (CASE c = "\"" -> <<"\\", "\"">>
          [] c = "\\" -> <<"\\", "\\">>
          [] c = "\n" -> <<"\\", "n">>
          [] c = "\t" -> <<"\\", "t">>
          [] OTHER -> <<c>>) \o Escaped(Tail(s))

Quoted(s) == <<"\"">> \o Escaped(s) \o <<"\"">>

\* valueToString(Int), valueToString(bool), "null", valueToQuotedString
ScalarText(v) ==
  CASE v.t = "null" -> <<"n", "u", "l", "l">>
    [] v.t = "bool" -> IF v.b THEN <<"t", "r", "u", "e">>
                       ELSE <<"f", "a", "l", "s", "e">>
    [] v.t = "int" -> IF v.n < 0 THEN <<"-">> \o ToText(0 - v.n) ELSE ToText(v.n)
    [] v.t = "string" -> Quoted(v.s)

\* Value::size
Size(v) ==
  CASE v.t = "array" -> Len(v.a)
    [] v.t = "object" -> Cardinality(DOMAIN v.m)
    [] OTHER -> 0

\* FastWriter::writeValue
RECURSIVE FastValue(_)
RECURSIVE FastElems(_)
RECURSIVE FastMembers(_, _)
FastValue(v) ==
  CASE v.t = "array" -> <<"[">> \o FastElems(v.a) \o <<"]">>
    [] v.t = "object" ->
         <<"{">> \o FastMembers(v.m, SortedKeys(DOMAIN v.m)) \o <<"}">>
    [] OTHER -> ScalarText(v)

FastElems(a) ==
  IF a = <<>> THEN <<>>
  ELSE FastValue(Head(a))
       \o (IF Len(a) > 1 THEN <<",">> ELSE <<>>) \o FastElems(Tail(a))

FastMembers(m, ks) ==
  IF ks = <<>> THEN <<>>
  ELSE Quoted(Head(ks)) \o <<":">> \o FastValue(m[Head(ks)])
       \o (IF Len(ks) > 1 THEN <<",">> ELSE <<>>) \o FastMembers(m, Tail(ks))

\* FastWriter with omitEndingLineFeed
FastWrite_NoLineFeed(root) == FastValue(root)

\* FastWriter::write: the compact document and the ending line feed
FastWrite(root) == FastValue(root) \o <<"\n">>

\* StyledWriter's indentString_ at nesting level ind (indentSize_ is 3)
RECURSIVE IndentString(_)
IndentString(ind) ==
  IF ind = 0 THEN <<>> ELSE <<" ", " ", " ">> \o IndentString(ind - 1)

\* StyledWriter::writeIndent
WriteIndent(doc, ind) ==
  IF doc # <<>> /\ doc[Len(doc)] = " " THEN doc
  ELSE IF doc # <<>> /\ doc[Len(doc)] # "\n"
       THEN doc \o <<"\n">> \o IndentString(ind)
  ELSE doc \o IndentString(ind)

\* StyledWriter::writeWithIndent
WriteWithIndent(doc, ind, text) == WriteIndent(doc, ind) \o text

RECURSIVE ChildrenLength(_)
ChildrenLength(a) ==
  IF a = <<>> THEN 0
  ELSE (IF Head(a).t \in {"array", "object"} THEN 2
        ELSE Len(ScalarText(Head(a)))) + ChildrenLength(Tail(a))

\* StyledWriter::isMultineArray (rightMargin_ is 74)
IsMultineArray(v) ==
  \/ Len(v.a) * 3 >= 74
  \/ \E i \in 1..Len(v.a) : v.a[i].t \in {"array", "object"} /\ Size(v.a[i]) > 0
  \/ 4 + (Len(v.a) - 1) * 2 + ChildrenLength(v.a) >= 74

\* StyledWriter::writeValue and writeArrayValue: the document after the value
RECURSIVE StyledValue(_, _, _)
RECURSIVE StyledElems(_, _, _, _)
RECURSIVE StyledLine(_, _)
RECURSIVE StyledMembers(_, _, _, _)
StyledValue(v, ind, doc) ==
  CASE v.t = "array" ->
         IF Len(v.a) = 0 THEN doc \o <<"[", "]">>
         ELSE IF IsMultineArray(v)
              THEN WriteWithIndent(
                     StyledElems(v.a, 1, ind + 1, WriteWithIndent(doc, ind, <<"[">>)),
                     ind, <<"]">>)
         ELSE doc \o <<"[", " ">> \o StyledLine(v.a, 1) \o <<" ", "]">>
    [] v.t = "object" ->
         IF DOMAIN v.m = {} THEN doc \o <<"{", "}">>
         ELSE WriteWithIndent(
                StyledMembers(v.m, SortedKeys(DOMAIN v.m), ind + 1,
                              WriteWithIndent(doc, ind, <<"{">>)),
                ind, <<"}">>)
    [] OTHER -> doc \o ScalarText(v)

\* the children of a multi-line array from index i on
StyledElems(a, i, ind, doc) ==
  IF i > Len(a) THEN doc
  ELSE LET d == StyledValue(a[i], ind, WriteIndent(doc, ind))
       IN  StyledElems(a, i + 1, ind, IF i < Len(a) THEN d \o <<",">> ELSE d)

\* the children of a single-line array from index i on
StyledLine(a, i) ==
  IF i > Len(a) THEN <<>>
  ELSE (IF i > 1 THEN <<",", " ">> ELSE <<>>)
       \o StyledValue(a[i], 0, <<>>) \o StyledLine(a, i + 1)

\* the members of a non-empty object, ks the names still to write
StyledMembers(m, ks, ind, doc) ==
  IF ks = <<>> THEN doc
  ELSE LET d == StyledValue(m[Head(ks)], ind,
                  WriteWithIndent(doc, ind, Quoted(Head(ks))) \o <<" ", ":", " ">>)
       IN  StyledMembers(m, Tail(ks), ind, IF Len(ks) > 1 THEN d \o <<",">> ELSE d)

\* Value::toStyledString: StyledWriter::write
ToStyledString(root) == StyledValue(root, 0, <<>>) \o <<"\n">>

(***************************************************************************)
(* Inputs                                                                  *)
(***************************************************************************)
\* lines the user may type at the prompt; the empty line is one of them
Instruments ==
  { <<>>,
    <<"B", "T", "C", "-", "P", "E", "R", "P", "E", "T", "U", "A", "L">>,
    <<"E", "T", "H", "-", "7">>,
    <<"a", "\"", "b">> }

\* payloads that are JSON texts
WellFormedPayloads ==
  { <<"{", "\"", "a", "\"", ":", "1", "}">>,
    <<"[", "t", "r", "u", "e", ",", "\"", "a", "\\", "n", "\"", ",", "2", "]">>,
    <<"{", "\"", "b", "\"", ":", "[", "1", ",", "{", "\"", "a", "\"", ":",
      "n", "u", "l", "l", "}", "]", ",", "\"", "a", "\"", ":",
      "\"", "x", "\\", "\"", "\"", "}">>,
    <<" ", "{", " ", "\"", "k", "\"", " ", ":", " ", "[", " ", "]", "\n", "}">>,
    <<"-", "7">> }

\* payloads that are not JSON texts and that the Reader rejects
MalformedPayloads ==
  { <<>>,
    <<"{", "\"", "a", "\"", ":", "1">>,
    <<"h", "i">>,
    <<"[", "1", ",", "]">> }

\* a payload that is not a JSON text and that the Reader accepts
LenientPayloads == { <<"{", "}", "x">> }

Payloads == WellFormedPayloads \cup MalformedPayloads \cup LenientPayloads

\* what a failed read may have left in the buffer
Partials == { <<>>, <<"{">> }

\* error_code values a completion handler may receive
Success == "success"
ErrorCodes == { Success, "error" }
\* the error_code of an operation that a deadline has cancelled
Timeout == "timeout"

\* the addresses the resolver may return for the host
Addresses == { "a1", "a2" }

(***************************************************************************)
(* Program constants                                                       *)
(***************************************************************************)
\* the arguments main gives to run
Host == <<"w", "w", "w", ".", "d", "e", "r", "i", "b", "i", "t", ".", "c", "o", "m">>
Port == <<"4", "4", "3">>
\* the resource of the WebSocket upgrade
Target == <<"/", "w", "s", "/", "a", "p", "i", "/", "v", "2">>
\* the seconds given to expires_after
TimeoutSeconds == 30

\* the handshake timeout of timeout::suggested for a client, in seconds
HandshakeTimeout == 30

Ops == { "resolve", "connect", "ssl_handshake", "handshake", "write", "read" }

(***************************************************************************)
(* State                                                                   *)
(***************************************************************************)
VARIABLES
  pc,           \* main: "start", "ioc_run" (inside ioc.run()) or "exit"
  exit_status,  \* "none", "EXIT_SUCCESS" or "EXIT_FAILURE"
  instrument,   \* main's local string
  host_,        \* WebSocketClient::host_
  instrument_,  \* WebSocketClient::instrument_
  buffer_,      \* WebSocketClient::buffer_
  expiry,       \* the tcp_stream's deadline: none, or the time left to it
  ws_timeout,   \* the websocket stream's timeout option
  ws_expiry,    \* the websocket stream's own timer: none, or the time left
  use_count,    \* how many shared_ptr own the session
  alive,        \* the session has been constructed and not yet destroyed
  trace,        \* calls, returns and async_* calls in program order
  pending,      \* per operation, how many are outstanding on the io_context
  issued,       \* every asynchronous operation started, in order
  completed,    \* every completion handler invoked, in order
  sent,         \* the frames that went out on the wire
  cout,         \* emissions to std::cout
  cerr          \* emissions to std::cerr

vars ==
  << pc, exit_status, instrument, host_, instrument_, buffer_, expiry,
     ws_timeout, ws_expiry, use_count, alive, trace, pending, issued,
     completed, sent, cout, cerr >>

NoPending == [op \in Ops |-> 0]

\* a timer is <<>> when no deadline is set, else <<time left>>
ExpiresNever == <<>>

ExpiresAfter(n) == <<n>>

\* websocket::stream_base::timeout: the defaults of a stream, and the
\* settings suggested for a role
NoTimeout ==
  [handshake_timeout |-> ExpiresNever, idle_timeout |-> ExpiresNever,
   keep_alive_pings |-> FALSE]

Suggested(role) ==
  CASE role = "client" ->
         [handshake_timeout |-> ExpiresAfter(HandshakeTimeout),
          idle_timeout |-> ExpiresNever, keep_alive_pings |-> FALSE]

Init ==
  /\ pc = "start"
  /\ exit_status = "none"
  /\ instrument = <<>>
  /\ host_ = <<>>
  /\ instrument_ = <<>>
  /\ buffer_ = <<>>
  /\ expiry = ExpiresNever
  /\ ws_timeout = NoTimeout
  /\ ws_expiry = ExpiresNever
  /\ use_count = 0
  /\ alive = FALSE
  /\ trace = <<>>
  /\ pending = NoPending
  /\ issued = <<>>
  /\ completed = <<>>
  /\ sent = <<>>
  /\ cout = <<>>
  /\ cerr = <<>>

(***************************************************************************)
(* Helpers of the handlers                                                 *)
(***************************************************************************)
\* the operation's completion handler has been taken off the io_context
Done(p, op) == [p EXCEPT ![op] = @ - 1]

\* an async_* call: one more operation outstanding
Started(p, op) == [p EXCEPT ![op] = @ + 1]

\* WebSocketClient::fail: one line on std::cerr, nothing else
Fail(ec, what) == Append(cerr, [src |-> "fail", what |-> what, message |-> ec])

NumReads == Cardinality({i \in 1..Len(completed) : completed[i].op = "read"})

\* the number of operations outstanding on the io_context
Outstanding(p) ==
  p["resolve"] + p["connect"] + p["ssl_handshake"] + p["handshake"]
    + p["write"] + p["read"]

\* a timer after d units of time
Elapse(t, d) ==
  IF t = ExpiresNever THEN t
  ELSE IF t[1] > d THEN ExpiresAfter(t[1] - d) ELSE ExpiresAfter(0)

Expired(t) == t # ExpiresNever /\ t[1] = 0

\* the timers an outstanding operation runs under: the resolver has none,
\* the stream operations have the tcp_stream's deadline, the websocket
\* operations also the websocket stream's timer
TimedOut(op) ==
  CASE op = "resolve" -> FALSE
    [] op \in {"connect", "ssl_handshake"} -> Expired(expiry)
    [] op \in {"handshake", "write", "read"} ->
         Expired(expiry) \/ Expired(ws_expiry)

\* the error_code values the completion of op may carry
Outcomes(op) == ErrorCodes \cup (IF TimedOut(op) THEN {Timeout} ELSE {})

\* the events of the trace
Enter(fn) == [ev |-> "enter", name |-> fn]

Exit(fn) == [ev |-> "exit", name |-> fn]

Issue(op) == [ev |-> "issue", name |-> op]

\* read binds this instead of shared_from_this()
Binds_RawThisInRead(op) == IF op \in Ops \ {"read"} THEN 1 ELSE 0

\* the shared_ptr bound into the completion handler of op
\* (shared_from_this() in every bind_front_handler)
Binds(op) == IF op \in Ops THEN 1 ELSE 0

RECURSIVE BindsAll(_)
BindsAll(reqs) ==
  IF reqs = <<>> THEN 0 ELSE Binds(Head(reqs).op) + BindsAll(Tail(reqs))

\* the operations this step has started, in order
NewRequests == SubSeq(issued', Len(issued) + 1, Len(issued'))

\* one invocation of the member function fn as a completion handler: the
\* handler owns the session while it runs, every async_* call of the body
\* binds one more owner, the handler is destroyed after fn returns; the
\* session is destroyed with its last owner
Callback(fn) ==
  /\ trace' = trace \o <<Enter(fn)>>
                    \o [i \in 1..Len(NewRequests) |-> Issue(NewRequests[i].op)]
                    \o <<Exit(fn)>>
  /\ use_count' = use_count - 1 + BindsAll(NewRequests)
  /\ alive' = (alive /\ use_count' > 0)

(***************************************************************************)
(* WebSocketClient                                                         *)
(***************************************************************************)
\* the channel name with the separator before the interval left out
Channel_MissingDot(instr) ==
  <<"b", "o", "o", "k", ".">> \o instr \o <<"1", "0", "0", "m", "s">>

\* "book." + instrument_ + ".100ms"
Channel(instr) ==
  <<"b", "o", "o", "k", ".">> \o instr \o <<".", "1", "0", "0", "m", "s">>

\* the Json::Value that subscribe_to_orderbook builds
Subscription(instr) ==
  LET params == ObjV(SetMember(EmptyMap, <<"c", "h", "a", "n", "n", "e", "l", "s">>,
                               ArrV(<<StrV(Channel(instr))>>)))
      m1 == SetMember(EmptyMap, <<"j", "s", "o", "n", "r", "p", "c">>,
                      StrV(<<"2", ".", "0">>))
      m2 == SetMember(m1, <<"i", "d">>, IntV(1))
      m3 == SetMember(m2, <<"m", "e", "t", "h", "o", "d">>,
                      StrV(<<"p", "u", "b", "l", "i", "c", "/",
                             "s", "u", "b", "s", "c", "r", "i", "b", "e">>))
  IN  ObjV(SetMember(m3, <<"p", "a", "r", "a", "m", "s">>, params))

\* bytes that are not the program's to choose: the content of freed storage
Indeterminate == <<"?">>

\* what async_write may transmit for net::buffer(message): message is a local
\* of subscribe_to_orderbook and is destroyed before the write completes
WireFrames(message) == { message, Indeterminate }

\* buffer_.consume(n)
Consume(buf, n) == SubSeq(buf, n + 1, Len(buf))

\* the buffer is not consumed after a message
ClearBuffer_Forgot(buf) == Consume(buf, 0)

\* buffer_.consume(buffer_.size())
ClearBuffer(buf) == Consume(buf, Len(buf))

\* the records of the issued log
Req(op) == [op |-> op, buffer_size |-> Len(buffer_)]

\* run that starts the connect together with the resolve
Run_ConnectsAtOnce(host, port, instr) ==
  /\ host_' = host
  /\ instrument_' = instr
  /\ pending' = Started(Started(pending, "resolve"), "connect")
  /\ issued' = issued \o << Req("resolve") @@ [host |-> host, port |-> port],
                           Req("connect") @@ [results |-> {}] >>

\* WebSocketClient::run, called from main
Run(host, port, instr) ==
  /\ host_' = host
  /\ instrument_' = instr
  /\ pending' = Started(pending, "resolve")
  /\ issued' = Append(issued, Req("resolve") @@ [host |-> host, port |-> port])

\* std::make_shared<WebSocketClient>(ioc, ctx)->fn(...) as a statement of
\* main: the temporary owns the session during the call and is destroyed at
\* the end of the statement
MakeShared(fn) ==
  /\ trace' = trace \o <<Enter(fn)>>
                    \o [i \in 1..Len(NewRequests) |-> Issue(NewRequests[i].op)]
                    \o <<Exit(fn)>>
  /\ use_count' = (1 + BindsAll(NewRequests)) - 1
  /\ alive' = (use_count' > 0)

\* main without the check of the line read
Main_NoEmptyCheck(input, throws) ==
  /\ pc = "start"
  /\ instrument' = input
  /\ IF throws
     THEN /\ cerr' = Append(cerr, [src |-> "main", error |-> "exception"])
          /\ pc' = "exit"
          /\ exit_status' = "EXIT_FAILURE"
          /\ UNCHANGED <<host_, instrument_, pending, issued, trace,
                         use_count, alive>>
     ELSE /\ Run(Host, Port, input)
          /\ MakeShared("run")
          /\ pc' = "ioc_run"
          /\ UNCHANGED <<cerr, exit_status>>
  /\ UNCHANGED <<buffer_, expiry, ws_timeout, ws_expiry, completed, sent, cout>>

\* main up to ioc.run(): read the line, check it, build the contexts, run
Main(input, throws) ==
  /\ pc = "start"
  /\ instrument' = input
  /\ IF input = <<>>
     THEN /\ cerr' = Append(cerr, [src |-> "main",
                                   error |-> "Instrument name cannot be empty."])
          /\ pc' = "exit"
          /\ exit_status' = "EXIT_FAILURE"
          /\ UNCHANGED <<host_, instrument_, pending, issued, trace,
                         use_count, alive>>
     ELSE IF throws
     THEN /\ cerr' = Append(cerr, [src |-> "main", error |-> "exception"])
          /\ pc' = "exit"
          /\ exit_status' = "EXIT_FAILURE"
          /\ UNCHANGED <<host_, instrument_, pending, issued, trace,
                         use_count, alive>>
     ELSE /\ Run(Host, Port, input)
          /\ MakeShared("run")
          /\ pc' = "ioc_run"
          /\ UNCHANGED <<cerr, exit_status>>
  /\ UNCHANGED <<buffer_, expiry, ws_timeout, ws_expiry, completed, sent, cout>>

\* main returning the failure status when the session has failed
IocRunReturns_FailureAfterFail ==
  /\ pc = "ioc_run"
  /\ pending = NoPending
  /\ pc' = "exit"
  /\ exit_status' = IF \E i \in 1..Len(cerr) : cerr[i].src = "fail"
                    THEN "EXIT_FAILURE" ELSE "EXIT_SUCCESS"
  /\ UNCHANGED <<instrument, host_, instrument_, buffer_, expiry, ws_timeout,
                 ws_expiry, use_count, alive, trace, pending, issued,
                 completed, sent, cout, cerr>>

\* ioc.run() returns when no work is left; main returns EXIT_SUCCESS
IocRunReturns ==
  /\ pc = "ioc_run"
  /\ pending = NoPending
  /\ pc' = "exit"
  /\ exit_status' = "EXIT_SUCCESS"
  /\ UNCHANGED <<instrument, host_, instrument_, buffer_, expiry, ws_timeout,
                 ws_expiry, use_count, alive, trace, pending, issued,
                 completed, sent, cout, cerr>>

\* on_resolve with the return before fail missing
OnResolve_NoReturn(ec, results) ==
  /\ pc = "ioc_run"
  /\ pending["resolve"] > 0
  /\ completed' = Append(completed, [op |-> "resolve", ec |-> ec])
  /\ cerr' = IF ec # Success THEN Fail(ec, "resolve") ELSE cerr
  /\ expiry' = ExpiresAfter(TimeoutSeconds)
  /\ pending' = Started(Done(pending, "resolve"), "connect")
  /\ issued' = Append(issued, Req("connect") @@ [results |-> results])
  /\ UNCHANGED <<pc, exit_status, instrument, host_, instrument_, buffer_,
                 ws_timeout, ws_expiry, sent, cout>>
  /\ Callback("on_resolve")

OnResolve(ec, results) ==
  /\ pc = "ioc_run"
  /\ pending["resolve"] > 0
  /\ completed' = Append(completed, [op |-> "resolve", ec |-> ec])
  /\ IF ec # Success
     THEN /\ cerr' = Fail(ec, "resolve")
          /\ pending' = Done(pending, "resolve")
          /\ UNCHANGED <<expiry, issued>>
     ELSE /\ expiry' = ExpiresAfter(TimeoutSeconds)
          /\ pending' = Started(Done(pending, "resolve"), "connect")
          /\ issued' = Append(issued, Req("connect") @@ [results |-> results])
          /\ UNCHANGED cerr
  /\ UNCHANGED <<pc, exit_status, instrument, host_, instrument_, buffer_,
                 ws_timeout, ws_expiry, sent, cout>>
  /\ Callback("on_resolve")

\* on_connect that starts the WebSocket handshake on the raw connection
OnConnect_SkipTls(ec, ep) ==
  /\ pc = "ioc_run"
  /\ pending["connect"] > 0
  /\ completed' = Append(completed, [op |-> "connect", ec |-> ec])
  /\ IF ec # Success
     THEN /\ cerr' = Fail(ec, "connect")
          /\ pending' = Done(pending, "connect")
          /\ UNCHANGED <<host_, expiry, issued>>
     ELSE /\ host_' = host_ \o <<":">> \o ToText(ep.port)
          /\ expiry' = ExpiresAfter(TimeoutSeconds)
          /\ pending' = Started(Done(pending, "connect"), "handshake")
          /\ issued' = Append(issued, Req("handshake")
                                        @@ [authority |-> host_', target |-> Target])
          /\ UNCHANGED cerr
  /\ UNCHANGED <<pc, exit_status, instrument, instrument_, buffer_, ws_timeout, ws_expiry,
                 sent, cout>>
  /\ Callback("on_connect")

\* on_connect without the call of expires_after
OnConnect_NoFreshDeadline(ec, ep) ==
  /\ pc = "ioc_run"
  /\ pending["connect"] > 0
  /\ completed' = Append(completed, [op |-> "connect", ec |-> ec])
  /\ IF ec # Success
     THEN /\ cerr' = Fail(ec, "connect")
          /\ pending' = Done(pending, "connect")
          /\ UNCHANGED <<host_, expiry, issued>>
     ELSE /\ host_' = host_ \o <<":">> \o ToText(ep.port)
          /\ pending' = Started(Done(pending, "connect"), "ssl_handshake")
          /\ issued' = Append(issued, Req("ssl_handshake") @@ [role |-> "client"])
          /\ UNCHANGED <<cerr, expiry>>
  /\ UNCHANGED <<pc, exit_status, instrument, instrument_, buffer_, ws_timeout,
                 ws_expiry, sent, cout>>
  /\ Callback("on_connect")

\* on_connect that does not append the port to host_
OnConnect_NoPort(ec, ep) ==
  /\ pc = "ioc_run"
  /\ pending["connect"] > 0
  /\ completed' = Append(completed, [op |-> "connect", ec |-> ec])
  /\ IF ec # Success
     THEN /\ cerr' = Fail(ec, "connect")
          /\ pending' = Done(pending, "connect")
          /\ UNCHANGED <<host_, expiry, issued>>
     ELSE /\ expiry' = ExpiresAfter(TimeoutSeconds)
          /\ pending' = Started(Done(pending, "connect"), "ssl_handshake")
          /\ issued' = Append(issued, Req("ssl_handshake") @@ [role |-> "client"])
          /\ UNCHANGED <<cerr, host_>>
  /\ UNCHANGED <<pc, exit_status, instrument, instrument_, buffer_, ws_timeout,
                 ws_expiry, sent, cout>>
  /\ Callback("on_connect")

OnConnect(ec, ep) ==
  /\ pc = "ioc_run"
  /\ pending["connect"] > 0
  /\ completed' = Append(completed, [op |-> "connect", ec |-> ec])
  /\ IF ec # Success
     THEN /\ cerr' = Fail(ec, "connect")
          /\ pending' = Done(pending, "connect")
          /\ UNCHANGED <<host_, expiry, issued>>
     ELSE /\ host_' = host_ \o <<":">> \o ToText(ep.port)
          /\ expiry' = ExpiresAfter(TimeoutSeconds)
          /\ pending' = Started(Done(pending, "connect"), "ssl_handshake")
          /\ issued' = Append(issued, Req("ssl_handshake") @@ [role |-> "client"])
          /\ UNCHANGED cerr
  /\ UNCHANGED <<pc, exit_status, instrument, instrument_, buffer_, ws_timeout, ws_expiry,
                 sent, cout>>
  /\ Callback("on_connect")

\* on_ssl_handshake that reports its failure under the next stage's label
OnSslHandshake_WrongLabel(ec) ==
  /\ pc = "ioc_run"
  /\ pending["ssl_handshake"] > 0
  /\ completed' = Append(completed, [op |-> "ssl_handshake", ec |-> ec])
  /\ IF ec # Success
     THEN /\ cerr' = Fail(ec, "handshake")
          /\ pending' = Done(pending, "ssl_handshake")
          /\ UNCHANGED <<expiry, ws_timeout, ws_expiry, issued>>
     ELSE /\ expiry' = ExpiresNever
          /\ ws_timeout' = Suggested("client")
          /\ ws_expiry' = ws_timeout'.handshake_timeout
          /\ pending' = Started(Done(pending, "ssl_handshake"), "handshake")
          /\ issued' = Append(issued, Req("handshake")
                                        @@ [authority |-> host_, target |-> Target])
          /\ UNCHANGED cerr
  /\ UNCHANGED <<pc, exit_status, instrument, host_, instrument_, buffer_,
                 sent, cout>>
  /\ Callback("on_ssl_handshake")

\* on_ssl_handshake without the call of expires_never
OnSslHandshake_KeepsDeadline(ec) ==
  /\ pc = "ioc_run"
  /\ pending["ssl_handshake"] > 0
  /\ completed' = Append(completed, [op |-> "ssl_handshake", ec |-> ec])
  /\ IF ec # Success
     THEN /\ cerr' = Fail(ec, "ssl_handshake")
          /\ pending' = Done(pending, "ssl_handshake")
          /\ UNCHANGED <<expiry, ws_timeout, ws_expiry, issued>>
     ELSE /\ ws_timeout' = Suggested("client")
          /\ ws_expiry' = ws_timeout'.handshake_timeout
          /\ pending' = Started(Done(pending, "ssl_handshake"), "handshake")
          /\ issued' = Append(issued, Req("handshake")
                                        @@ [authority |-> host_, target |-> Target])
          /\ UNCHANGED <<cerr, expiry>>
  /\ UNCHANGED <<pc, exit_status, instrument, host_, instrument_, buffer_,
                 sent, cout>>
  /\ Callback("on_ssl_handshake")

OnSslHandshake(ec) ==
  /\ pc = "ioc_run"
  /\ pending["ssl_handshake"] > 0
  /\ completed' = Append(completed, [op |-> "ssl_handshake", ec |-> ec])
  /\ IF ec # Success
     THEN /\ cerr' = Fail(ec, "ssl_handshake")
          /\ pending' = Done(pending, "ssl_handshake")
          /\ UNCHANGED <<expiry, ws_timeout, ws_expiry, issued>>
     ELSE /\ expiry' = ExpiresNever
          /\ ws_timeout' = Suggested("client")
          /\ ws_expiry' = ws_timeout'.handshake_timeout
          /\ pending' = Started(Done(pending, "ssl_handshake"), "handshake")
          /\ issued' = Append(issued, Req("handshake")
                                        @@ [authority |-> host_, target |-> Target])
          /\ UNCHANGED cerr
  /\ UNCHANGED <<pc, exit_status, instrument, host_, instrument_, buffer_,
                 sent, cout>>
  /\ Callback("on_ssl_handshake")

\* subscribe_to_orderbook that starts reading without waiting for the write
SubscribeToOrderbook_AndRead(p) ==
  LET subscription == Subscription(instrument_)
      message == FastWrite(subscription)
  IN  /\ pending' = Started(Started(p, "write"), "read")
      /\ issued' = issued \o << Req("write") @@ [subscription |-> subscription,
                                                 message |-> message],
                               Req("read") >>

\* subscribe_to_orderbook: build the request, serialize it, start the write
SubscribeToOrderbook(p) ==
  LET subscription == Subscription(instrument_)
      message == FastWrite(subscription)
  IN  /\ pending' = Started(p, "write")
      /\ issued' = Append(issued, Req("write") @@ [subscription |-> subscription,
                                                   message |-> message])

OnHandshake(ec) ==
  /\ pc = "ioc_run"
  /\ pending["handshake"] > 0
  /\ completed' = Append(completed, [op |-> "handshake", ec |-> ec])
  /\ IF ec # Success
     THEN /\ cerr' = Fail(ec, "handshake")
          /\ pending' = Done(pending, "handshake")
          /\ UNCHANGED issued
     ELSE /\ SubscribeToOrderbook(Done(pending, "handshake"))
          /\ UNCHANGED cerr
  /\ UNCHANGED <<pc, exit_status, instrument, host_, instrument_, buffer_,
                 expiry, ws_timeout, sent, cout>>
  /\ ws_expiry' = IF ec = Success THEN ws_timeout.idle_timeout ELSE ExpiresNever
  /\ Callback("on_handshake")

\* read that starts two reads
Read_Twice(p, buf) ==
  /\ pending' = Started(Started(p, "read"), "read")
  /\ issued' = issued \o << [op |-> "read", buffer_size |-> Len(buf)],
                           [op |-> "read", buffer_size |-> Len(buf)] >>

\* WebSocketClient::read, buf being buffer_ at the call
Read(p, buf) ==
  /\ pending' = Started(p, "read")
  /\ issued' = Append(issued, [op |-> "read", buffer_size |-> Len(buf)])

\* the message given to the last async_write
LastMessage ==
  LET w == {i \in 1..Len(issued) : issued[i].op = "write"}
  IN  issued[CHOOSE i \in w : \A j \in w : j <= i].message

\* on_write that does not start reading
OnWrite_NoRead(ec) ==
  /\ pc = "ioc_run"
  /\ pending["write"] > 0
  /\ completed' = Append(completed, [op |-> "write", ec |-> ec])
  /\ IF ec # Success
     THEN /\ cerr' = Fail(ec, "write")
          /\ pending' = Done(pending, "write")
          /\ UNCHANGED <<issued, sent>>
     ELSE /\ \E frame \in WireFrames(LastMessage) : sent' = Append(sent, frame)
          /\ pending' = Done(pending, "write")
          /\ UNCHANGED <<cerr, issued>>
  /\ UNCHANGED <<pc, exit_status, instrument, host_, instrument_, buffer_,
                 expiry, ws_timeout, ws_expiry, cout>>
  /\ Callback("on_write")

OnWrite(ec) ==
  /\ pc = "ioc_run"
  /\ pending["write"] > 0
  /\ completed' = Append(completed, [op |-> "write", ec |-> ec])
  /\ IF ec # Success
     THEN /\ cerr' = Fail(ec, "write")
          /\ pending' = Done(pending, "write")
          /\ UNCHANGED <<issued, sent>>
     ELSE /\ \E frame \in WireFrames(LastMessage) : sent' = Append(sent, frame)
          /\ Read(Done(pending, "write"), buffer_)
          /\ UNCHANGED cerr
  /\ UNCHANGED <<pc, exit_status, instrument, host_, instrument_, buffer_,
                 expiry, ws_timeout, ws_expiry, cout>>
  /\ Callback("on_write")

\* on_read that subscribes again after each message instead of reading
OnRead_Resubscribe(ec, payload, partial) ==
  /\ pc = "ioc_run"
  /\ pending["read"] > 0
  /\ NumReads < MaxReads
  /\ IF ec # Success
     THEN /\ completed' = Append(completed, [op |-> "read", ec |-> ec])
          /\ buffer_' = buffer_ \o partial
          /\ cerr' = Fail(ec, "read")
          /\ pending' = Done(pending, "read")
          /\ UNCHANGED <<issued, cout>>
     ELSE LET data == buffer_ \o payload
              root == Parse(data)
          IN  /\ completed' = Append(completed, [op |-> "read", ec |-> ec,
                                                 payload |-> payload, data |-> data])
              /\ IF root.ok
                 THEN /\ cout' = Append(cout, [head |-> "Received message:\n",
                                               text |-> ToStyledString(root.val)])
                      /\ UNCHANGED cerr
                 ELSE /\ cerr' = Append(cerr, [src |-> "on_read",
                                               head |-> "Failed to parse JSON: ",
                                               text |-> data])
                      /\ UNCHANGED cout
              /\ buffer_' = ClearBuffer(data)
              /\ SubscribeToOrderbook(Done(pending, "read"))
  /\ UNCHANGED <<pc, exit_status, instrument, host_, instrument_, expiry,
                 ws_timeout, ws_expiry, sent>>
  /\ Callback("on_read")

\* on_read that treats a parse failure like a read failure
OnRead_FatalParseError(ec, payload, partial) ==
  /\ pc = "ioc_run"
  /\ pending["read"] > 0
  /\ NumReads < MaxReads
  /\ IF ec # Success
     THEN /\ completed' = Append(completed, [op |-> "read", ec |-> ec])
          /\ buffer_' = buffer_ \o partial
          /\ cerr' = Fail(ec, "read")
          /\ pending' = Done(pending, "read")
          /\ UNCHANGED <<issued, cout>>
     ELSE LET data == buffer_ \o payload
              root == Parse(data)
          IN  /\ completed' = Append(completed, [op |-> "read", ec |-> ec,
                                                 payload |-> payload, data |-> data])
              /\ IF root.ok
                 THEN /\ cout' = Append(cout, [head |-> "Received message:\n",
                                               text |-> ToStyledString(root.val)])
                      /\ buffer_' = ClearBuffer(data)
                      /\ Read(Done(pending, "read"), ClearBuffer(data))
                      /\ UNCHANGED cerr
                 ELSE /\ cerr' = Fail("parse", "read")
                      /\ buffer_' = data
                      /\ pending' = Done(pending, "read")
                      /\ UNCHANGED <<issued, cout>>
  /\ UNCHANGED <<pc, exit_status, instrument, host_, instrument_, expiry,
                 ws_timeout, ws_expiry, sent>>
  /\ Callback("on_read")

\* on_read with the test of the parse result negated
OnRead_NegatedParse(ec, payload, partial) ==
  /\ pc = "ioc_run"
  /\ pending["read"] > 0
  /\ NumReads < MaxReads
  /\ IF ec # Success
     THEN /\ completed' = Append(completed, [op |-> "read", ec |-> ec])
          /\ buffer_' = buffer_ \o partial
          /\ cerr' = Fail(ec, "read")
          /\ pending' = Done(pending, "read")
          /\ UNCHANGED <<issued, cout>>
     ELSE LET data == buffer_ \o payload
              root == Parse(data)
          IN  /\ completed' = Append(completed, [op |-> "read", ec |-> ec,
                                                 payload |-> payload, data |-> data])
              /\ IF ~root.ok
                 THEN /\ cout' = Append(cout, [head |-> "Received message:\n",
                                               text |-> ToStyledString(root.val)])
                      /\ UNCHANGED cerr
                 ELSE /\ cerr' = Append(cerr, [src |-> "on_read",
                                               head |-> "Failed to parse JSON: ",
                                               text |-> data])
                      /\ UNCHANGED cout
              /\ buffer_' = ClearBuffer(data)
              /\ Read(Done(pending, "read"), ClearBuffer(data))
  /\ UNCHANGED <<pc, exit_status, instrument, host_, instrument_, expiry,
                 ws_timeout, ws_expiry, sent>>
  /\ Callback("on_read")

\* the read completes: on success one whole message has been appended to
\* buffer_, on failure possibly part of one; then on_read runs
OnRead(ec, payload, partial) ==
  /\ pc = "ioc_run"
  /\ pending["read"] > 0
  /\ NumReads < MaxReads
  /\ IF ec # Success
     THEN /\ completed' = Append(completed, [op |-> "read", ec |-> ec])
          /\ buffer_' = buffer_ \o partial
          /\ cerr' = Fail(ec, "read")
          /\ pending' = Done(pending, "read")
          /\ UNCHANGED <<issued, cout>>
     ELSE LET data == buffer_ \o payload
              root == Parse(data)
          IN  /\ completed' = Append(completed, [op |-> "read", ec |-> ec,
                                                 payload |-> payload, data |-> data])
              /\ IF root.ok
                 THEN /\ cout' = Append(cout, [head |-> "Received message:\n",
                                               text |-> ToStyledString(root.val)])
                      /\ UNCHANGED cerr
                 ELSE /\ cerr' = Append(cerr, [src |-> "on_read",
                                               head |-> "Failed to parse JSON: ",
                                               text |-> data])
                      /\ UNCHANGED cout
              /\ buffer_' = ClearBuffer(data)
              /\ Read(Done(pending, "read"), ClearBuffer(data))
  /\ UNCHANGED <<pc, exit_status, instrument, host_, instrument_, expiry,
                 ws_timeout, ws_expiry, sent>>
  /\ Callback("on_read")

\* time passes while an operation is outstanding: every armed timer of the
\* session runs down
Tick ==
  /\ pc = "ioc_run"
  /\ alive
  /\ Outstanding(pending) > 0
  /\ Elapse(expiry, TickStep) # expiry \/ Elapse(ws_expiry, TickStep) # ws_expiry
  /\ expiry' = Elapse(expiry, TickStep)
  /\ ws_expiry' = Elapse(ws_expiry, TickStep)
  /\ UNCHANGED <<pc, exit_status, instrument, host_, instrument_, buffer_,
                 ws_timeout, use_count, alive, trace, pending, issued,
                 completed, sent, cout, cerr>>

\* what the resolver may return for service port: the port is the number
\* the service string denotes
Endpoints == [addr : Addresses, port : {DecodeDigits(Port, 0)}]

Next ==
  \/ \E input \in Instruments, throws \in BOOLEAN : Main(input, throws)
  \/ \E ec \in Outcomes("resolve"), results \in (SUBSET Endpoints) \ {{}} :
       OnResolve(ec, results)
  \/ \E ec \in Outcomes("connect"), ep \in Endpoints : OnConnect(ec, ep)
  \/ \E ec \in Outcomes("ssl_handshake") : OnSslHandshake(ec)
  \/ \E ec \in Outcomes("handshake") : OnHandshake(ec)
  \/ \E ec \in Outcomes("write") : OnWrite(ec)
  \/ \E ec \in Outcomes("read"), payload \in Payloads, partial \in Partials :
       OnRead(ec, payload, partial)
  \/ Tick
  \/ IocRunReturns

Spec == Init /\ [][Next]_vars

(***************************************************************************)
(* The session as a process that runs for ever.  The logs are history: the *)
(* program cannot read them, so the reads handled so far can be forgotten  *)
(* once MaxReads of them are on record, which puts the session back where  *)
(* it was when on_write had started the first read.  Every operation       *)
(* outstanding completes, with some outcome, and its handler is run; main  *)
(* goes on when ioc.run() has no work left.  Time is under no obligation.  *)
(***************************************************************************)
NotRead(r) == r.op # "read"

NotFromOnRead(e) == e.src # "on_read"

ForgetReads ==
  /\ pc = "ioc_run"
  /\ pending["read"] > 0
  /\ NumReads = MaxReads
  /\ completed' = SelectSeq(completed, NotRead)
  /\ issued' = Append(SelectSeq(issued, NotRead), issued[Len(issued)])
  /\ cout' = <<>>
  /\ cerr' = SelectSeq(cerr, NotFromOnRead)
  /\ trace' = SubSeq(trace, 1,
                     CHOOSE i \in 1..Len(trace) : trace[i] = Exit("on_write"))
  /\ UNCHANGED <<pc, exit_status, instrument, host_, instrument_, buffer_,
                 expiry, ws_timeout, ws_expiry, use_count, alive, pending,
                 sent>>

LiveNext == Next \/ ForgetReads

Fairness ==
  /\ WF_vars(\E ec \in Outcomes("resolve"), results \in (SUBSET Endpoints) \ {{}} :
               OnResolve(ec, results))
  /\ WF_vars(\E ec \in Outcomes("connect"), ep \in Endpoints : OnConnect(ec, ep))
  /\ WF_vars(\E ec \in Outcomes("ssl_handshake") : OnSslHandshake(ec))
  /\ WF_vars(\E ec \in Outcomes("handshake") : OnHandshake(ec))
  /\ WF_vars(\E ec \in Outcomes("write") : OnWrite(ec))
  /\ WF_vars(\E ec \in Outcomes("read"), payload \in Payloads,
                partial \in Partials : OnRead(ec, payload, partial))
  /\ WF_vars(ForgetReads)
  /\ WF_vars(IocRunReturns)

FairSpec == Init /\ [][LiveNext]_vars /\ Fairness

(***************************************************************************)
(* The lifecycle state of the session, read off the program state: the     *)
(* stage is the operation that is outstanding, Failed is a report of the   *)
(* error sink.                                                             *)
(***************************************************************************)
Failed == \E i \in 1..Len(cerr) : cerr[i].src = "fail"

State ==
  IF Failed THEN "Failed"
  ELSE IF pending["read"] > 0 THEN "Streaming"
  ELSE IF pending["write"] > 0 THEN "Subscribing"
  ELSE IF pending["handshake"] > 0 THEN "ProtocolHandshaking"
  ELSE IF pending["ssl_handshake"] > 0 THEN "SecureHandshaking"
  ELSE IF pending["connect"] > 0 THEN "Connecting"
  ELSE IF pending["resolve"] > 0 THEN "Resolving"
  ELSE "Init"

(***************************************************************************)
(* Vocabulary of the properties                                            *)
(***************************************************************************)
StageOrder ==
  << "Init", "Resolving", "Connecting", "SecureHandshaking",
     "ProtocolHandshaking", "Subscribing", "Streaming" >>

Rank(s) == CHOOSE i \in 1..Len(StageOrder) : StageOrder[i] = s

OpsOf(log) == [i \in 1..Len(log) |-> log[i].op]

Count(log, op) == Cardinality({i \in 1..Len(log) : log[i].op = op})

Succeeded(op) ==
  \E i \in 1..Len(completed) : completed[i].op = op /\ completed[i].ec = Success

ErrorReported == \E i \in 1..Len(completed) : completed[i].ec # Success

\* a handler ran in this step: the entry it added to completed
HandlerRan == Len(completed') = Len(completed) + 1
Ran == completed'[Len(completed')]

\* an operation was started in this step
Issues(op) ==
  /\ Len(issued') > Len(issued)
  /\ \E i \in (Len(issued) + 1)..Len(issued') : issued'[i].op = op

RECURSIVE FailReportsOf(_)
FailReportsOf(log) ==
  IF log = <<>> THEN <<>>
  ELSE (IF Head(log).src = "fail" THEN <<Head(log)>> ELSE <<>>)
       \o FailReportsOf(Tail(log))

\* the reports of the error sink, in order
FailReports == FailReportsOf(cerr)

SetupOps == << "resolve", "connect", "ssl_handshake", "handshake", "write" >>

(***************************************************************************)
(* Properties                                                              *)
(***************************************************************************)
\* C1: the lifecycle state only moves forward through Init, Resolving,
\* Connecting, SecureHandshaking, ProtocolHandshaking, Subscribing, Streaming:
\* every change of state is a step to the next stage (or into Failed), and
\* in Streaming each setup operation has been issued exactly once, in order,
\* followed by reads only.
C1_ForwardOnly ==
  /\ [][State' # State =>
          /\ State # "Failed"
          /\ State' = "Failed" \/ Rank(State') = Rank(State) + 1]_vars
  /\ [](State = "Streaming" =>
          /\ Len(issued) > Len(SetupOps)
          /\ SubSeq(OpsOf(issued), 1, Len(SetupOps)) = SetupOps
          /\ \A i \in (Len(SetupOps) + 1)..Len(issued) : issued[i].op = "read")

C1_Witness == State = "Streaming" /\ Count(completed, "read") >= 1

\* C2: once a completion handler has received an error the session is Failed
\* with nothing outstanding, the step that reports the error starts no
\* operation, and afterwards no handler runs, no operation is started and
\* the state does not change; after a failed resolve no connect is issued.
C2_FailedAbsorbing ==
  /\ [](ErrorReported => State = "Failed" /\ pending = NoPending)
  /\ [][ErrorReported' => issued' = issued]_vars
  /\ [][ErrorReported =>
          completed' = completed /\ pending' = pending /\ State' = State]_vars
  /\ []((completed # <<>> /\ completed[1].ec # Success) =>
          Count(issued, "connect") = 0)

C2_Witness ==
  /\ ErrorReported
  /\ pc = "exit"
  /\ completed[1].ec # Success
  /\ OpsOf(issued) = <<"resolve">>

\* C3: the subscription write is issued at most once, exactly once when the
\* WebSocket handshake has completed successfully, and not before.
C3_SubscribeOnce ==
  Count(issued, "write") = IF Succeeded("handshake") THEN 1 ELSE 0

C3_Witness ==
  /\ Count(issued, "write") = 1
  /\ Count(completed, "read") >= 1

\* the label the error sink is given for each operation
StageLabel ==
  [ resolve |-> "resolve", connect |-> "connect",
    ssl_handshake |-> "ssl_handshake", handshake |-> "handshake",
    write |-> "write", read |-> "read" ]

\* C4: the error sink is invoked at most once per session; it is invoked
\* exactly when a completion handler received an error, and its report
\* carries the label of the operation that failed and that error.
C4_ReportedOnce ==
  /\ Len(FailReports) <= 1
  /\ ErrorReported <=> Len(FailReports) = 1
  /\ \A i \in 1..Len(completed) :
       completed[i].ec # Success =>
         /\ FailReports[1].what = StageLabel[completed[i].op]
         /\ FailReports[1].message = completed[i].ec

C4_Witness ==
  /\ Len(FailReports) = 1
  /\ FailReports[1].what = "ssl_handshake"

\* C5: the receive buffer is empty at every point where a read is issued.
C5_BufferEmptyAtRead ==
  \A i \in 1..Len(issued) : issued[i].op = "read" => issued[i].buffer_size = 0

C5_Witness ==
  /\ Count(issued, "read") = 3
  /\ \E i, j \in 1..Len(completed) :
       /\ completed[i].op = "read" /\ completed[i].ec = Success
       /\ completed[j].op = "read" /\ completed[j].ec = Success
       /\ Parse(completed[i].payload).ok
       /\ ~Parse(completed[j].payload).ok
       /\ Len(completed[j].payload) > 0

\* on_read was given a payload in this step and parsing it failed / succeeded
ReadDelivered == HandlerRan /\ Ran.op = "read" /\ Ran.ec = Success
ParseFailed == ReadDelivered /\ ~Parse(Ran.data).ok
ParseSucceeded == ReadDelivered /\ Parse(Ran.data).ok

\* C6: a payload that fails to parse yields exactly one diagnostic emission
\* holding the raw payload, no output emission and no error-sink report; the
\* buffer is cleared, another read is issued and the session stays in
\* Streaming.  Streaming is left only when a read completes with an error,
\* and a payload that parses right after one that did not is emitted.
C6_ParseErrorRecoverable ==
  /\ [][ParseFailed =>
          /\ Len(cerr') = Len(cerr) + 1
          /\ SubSeq(cerr', 1, Len(cerr)) = cerr
          /\ cerr'[Len(cerr')].src = "on_read"
          /\ cerr'[Len(cerr')].text = Ran.payload
          /\ cout' = cout
          /\ ~Failed'
          /\ buffer_' = <<>>
          /\ Issues("read")
          /\ pending'["read"] = 1
          /\ State' = "Streaming"]_vars
  /\ [][(State = "Streaming" /\ State' # "Streaming") =>
          HandlerRan /\ Ran.op = "read" /\ Ran.ec # Success]_vars
  /\ [][(/\ ParseSucceeded
         /\ completed # <<>>
         /\ completed[Len(completed)].op = "read"
         /\ ~Parse(completed[Len(completed)].data).ok) =>
          /\ Len(cout') = Len(cout) + 1
          /\ cout'[Len(cout')].text = ToStyledString(Parse(Ran.payload).val)
          /\ cerr' = cerr]_vars

C6_Witness ==
  /\ State = "Streaming"
  /\ Len(cout) = 1
  /\ \E k \in 1..(Len(completed) - 1) :
       /\ completed[k].op = "read"
       /\ completed[k].ec = Success
       /\ completed[k].payload = <<"{", "\"", "a", "\"", ":", "1">>
       /\ completed[k + 1].op = "read"
       /\ completed[k + 1].ec = Success
       /\ completed[k + 1].payload = <<"{", "\"", "a", "\"", ":", "1", "}">>
  /\ \E i \in 1..Len(cerr) : cerr[i].src = "on_read"

C8_SubscriptionRequest ==
  \A i \in 1..Len(issued) :
    issued[i].op = "write" =>
      LET s == issued[i].subscription
          jsonrpc == <<"j", "s", "o", "n", "r", "p", "c">>
          method == <<"m", "e", "t", "h", "o", "d">>
          id == <<"i", "d">>
          params == <<"p", "a", "r", "a", "m", "s">>
          channels == <<"c", "h", "a", "n", "n", "e", "l", "s">>
      IN  /\ s.t = "object"
          /\ {jsonrpc, method, id, params} \subseteq DOMAIN s.m
          /\ s.m[jsonrpc] = StrV(<<"2", ".", "0">>)
          /\ s.m[method] = StrV(<<"p", "u", "b", "l", "i", "c", "/",
                                  "s", "u", "b", "s", "c", "r", "i", "b", "e">>)
          /\ s.m[id] = IntV(1)
          /\ s.m[params].t = "object"
          /\ channels \in DOMAIN s.m[params].m
          /\ s.m[params].m[channels] =
               ArrV(<< StrV(<<"b", "o", "o", "k", ".">> \o instrument
                            \o <<".", "1", "0", "0", "m", "s">>) >>)

C8_Witness ==
  /\ Count(issued, "write") = 1
  /\ instrument = <<"a", "\"", "b">>

\* the sessions started: the resolve operations issued
SessionsStarted == Count(issued, "resolve")

SessionAgainstDeribit ==
  /\ SessionsStarted = 1
  /\ issued[1].op = "resolve"
  /\ issued[1].host = <<"w", "w", "w", ".", "d", "e", "r", "i", "b", "i", "t",
                        ".", "c", "o", "m">>
  /\ issued[1].port = <<"4", "4", "3">>

SetupThrew == \E i \in 1..Len(cerr) : cerr[i].src = "main" /\ cerr[i].error = "exception"

\* C9 as stated: an empty instrument ends the process with the failure
\* status and no operation issued; a non-empty one starts exactly one session
\* against www.deribit.com port 443.
C9_Original ==
  pc # "start" =>
    IF instrument = <<>>
    THEN pc = "exit" /\ exit_status = "EXIT_FAILURE" /\ issued = <<>>
    ELSE SessionAgainstDeribit

\* C9 (amended): an empty instrument ends the process with the failure status
\* and no operation issued; a non-empty one starts exactly one session
\* against www.deribit.com port 443 unless building the contexts or the
\* session raises an exception, in which case the process ends with the
\* failure status and no operation issued.
C9_EmptyInstrumentFatal ==
  pc # "start" =>
    IF instrument = <<>> \/ SetupThrew
    THEN pc = "exit" /\ exit_status = "EXIT_FAILURE" /\ issued = <<>>
    ELSE SessionAgainstDeribit

C9_Witness ==
  /\ pc = "exit"
  /\ instrument = <<>>
  /\ exit_status = "EXIT_FAILURE"
  /\ \E i \in 1..Len(cerr) :
       cerr[i].src = "main" /\ cerr[i].error = "Instrument name cannot be empty."

\* C10: at most one read and at most one write are outstanding, no second
\* write is issued, and a read is issued only by the handler of the
\* successful write or of a successful read, with the buffer cleared and no
\* other read outstanding.
C10_OneReadOneWrite ==
  /\ [](/\ pending["read"] <= 1
        /\ pending["write"] <= 1
        /\ Count(issued, "write") <= 1
        /\ Count(issued, "read") <= Count(completed, "read") + 1)
  /\ [][Issues("read") =>
          /\ HandlerRan
          /\ Ran.op \in {"write", "read"}
          /\ Ran.ec = Success
          /\ buffer_' = <<>>
          /\ pending'["read"] = 1]_vars

C10_Witness ==
  /\ pending["read"] = 1
  /\ pending["write"] = 0
  /\ Count(completed, "read") = 2
  /\ Count(issued, "read") = 3

\* the completions that a deadline has cancelled
TimedOutOps ==
  {completed[i].op : i \in {j \in 1..Len(completed) : completed[j].ec = Timeout}}

\* the session has been reported Failed under this label
ReportedAs(what) == \E i \in 1..Len(cerr) : cerr[i].src = "fail" /\ cerr[i].what = what

BtcPerpetual == <<"B", "T", "C", "-", "P", "E", "R", "P", "E", "T", "U", "A", "L">>

\* the text C12 gives for the frame, the instrument put in verbatim
ClaimedFrame(instr) ==
  <<"{", "\"", "j", "s", "o", "n", "r", "p", "c", "\"", ":", "\"", "2",
     ".", "0", "\"", ",", "\"", "i", "d", "\"", ":", "1", ",", "\"", "m",
     "e", "t", "h", "o", "d", "\"", ":", "\"", "p", "u", "b", "l", "i",
     "c", "/", "s", "u", "b", "s", "c", "r", "i", "b", "e", "\"", ",",
     "\"", "p", "a", "r", "a", "m", "s", "\"", ":", "{", "\"", "c", "h",
     "a", "n", "n", "e", "l", "s", "\"", ":", "[", "\"", "b", "o", "o",
     "k", ".">>
  \o instr \o
  <<".", "1", "0", "0", "m", "s", "\"", "]", "}", "}">>

\* the text of the frame with the members in the order of their keys, the
\* channel as a JSON string, and a line feed at the end
SortedFrame(instr) ==
  <<"{", "\"", "i", "d", "\"", ":", "1", ",", "\"", "j", "s", "o", "n",
     "r", "p", "c", "\"", ":", "\"", "2", ".", "0", "\"", ",", "\"", "m",
     "e", "t", "h", "o", "d", "\"", ":", "\"", "p", "u", "b", "l", "i",
     "c", "/", "s", "u", "b", "s", "c", "r", "i", "b", "e", "\"", ",",
     "\"", "p", "a", "r", "a", "m", "s", "\"", ":", "{", "\"", "c", "h",
     "a", "n", "n", "e", "l", "s", "\"", ":", "[">>
  \o Quoted(Channel(instr)) \o
  <<"]", "}", "}", "\n">>

\* the messages given to async_write
Messages ==
  {issued[i].message : i \in {j \in 1..Len(issued) : issued[j].op = "write"}}

HandlerOf(op) ==
  CASE op = "resolve" -> "on_resolve"
    [] op = "connect" -> "on_connect"
    [] op = "ssl_handshake" -> "on_ssl_handshake"
    [] op = "handshake" -> "on_handshake"
    [] op = "write" -> "on_write"
    [] op = "read" -> "on_read"

\* the stage before the stage of op; a read follows the write or a read
StagesBefore(op) ==
  CASE op = "resolve" -> {}
    [] op = "connect" -> {"resolve"}
    [] op = "ssl_handshake" -> {"connect"}
    [] op = "handshake" -> {"ssl_handshake"}
    [] op = "write" -> {"handshake"}
    [] op = "read" -> {"write", "read"}

\* the functions from which op may be started: run for the first operation,
\* else the handler of the stage before
Issuers(op) ==
  IF op = "resolve" THEN {"run"} ELSE {HandlerOf(a) : a \in StagesBefore(op)}

\* C13 as stated: when a stage's operation is issued, the completion callback
\* of the stage before has already returned.
C13_Original ==
  \A i \in 1..Len(trace) :
    trace[i].ev = "issue" /\ trace[i].name # "resolve" =>
      \E j \in 1..(i - 1) :
        /\ trace[j].ev = "exit"
        /\ trace[j].name \in Issuers(trace[i].name)
        /\ \A k \in (j + 1)..(i - 1) : trace[k].ev # "issue"

\* C13: a stage's operation is never issued before the completion callback of
\* the stage before has been entered: it is issued from within that callback,
\* as the last thing the callback does before it returns, and no callback is
\* entered before the callback running has returned.
C13_IssuedByPrecedingCallback ==
  /\ \A i \in 1..Len(trace) :
       trace[i].ev = "issue" =>
         /\ 1 < i /\ i < Len(trace)
         /\ trace[i - 1].ev = "enter"
         /\ trace[i - 1].name \in Issuers(trace[i].name)
         /\ trace[i + 1] = Exit(trace[i - 1].name)
  /\ \A i \in 1..Len(trace) :
       trace[i].ev = "enter" =>
         \E j \in {i + 1, i + 2} :
           /\ j <= Len(trace)
           /\ trace[j] = Exit(trace[i].name)
           /\ \A k \in (i + 1)..(j - 1) : trace[k].ev = "issue"
  /\ \A i \in 1..Len(trace) :
       trace[i].ev = "enter" /\ trace[i].name # "run" =>
         \E j \in 1..(i - 1) :
           /\ trace[j].ev = "issue"
           /\ HandlerOf(trace[j].name) = trace[i].name

C13_Witness ==
  /\ State = "Streaming"
  /\ \E i \in 2..Len(trace) :
       /\ trace[i] = Issue("read")
       /\ trace[i - 1] = Enter("on_read")
  /\ \E i \in 2..Len(trace) :
       /\ trace[i] = Issue("write")
       /\ trace[i - 1] = Enter("on_handshake")

\* C14: Connecting and SecureHandshaking each begin with a deadline of 30
\* units armed in the step that starts the stage, whatever was left of the
\* deadline before; while the stage lasts the deadline only runs down from
\* 30; an operation of these stages is cancelled by the deadline only when
\* the deadline has run out, and the session is then Failed with the
\* stage's label as its only report.
C14_FreshDeadlinePerStage ==
  /\ [][Issues("connect") \/ Issues("ssl_handshake") =>
          expiry' = ExpiresAfter(TimeoutSeconds)]_vars
  /\ [](State \in {"Connecting", "SecureHandshaking"} =>
          /\ expiry # ExpiresNever
          /\ expiry[1] \in 0..TimeoutSeconds)
  /\ [][/\ HandlerRan
        /\ Ran.op \in {"connect", "ssl_handshake"}
        /\ Ran.ec = Timeout
        => /\ Expired(expiry)
           /\ State' = "Failed"
           /\ cerr' = <<[src |-> "fail", what |-> Ran.op, message |-> Timeout]>>
           /\ pending' = NoPending]_vars

C14_Witness ==
  /\ "ssl_handshake" \in TimedOutOps
  /\ Succeeded("connect")
  /\ State = "Failed"
  /\ ReportedAs("ssl_handshake")

\* C15: while an operation is outstanding the session is alive and has at
\* least one owner; inside ioc.run() the owners are exactly the pending
\* completion handlers, main holding none; the session is alive whenever a
\* completion handler runs, and it is destroyed only in a step after which
\* nothing is outstanding.
C15_SessionOutlivesOperations ==
  /\ [](Outstanding(pending) > 0 => alive /\ use_count >= 1)
  /\ [](pc = "ioc_run" => use_count = Outstanding(pending))
  /\ [][HandlerRan => alive]_vars
  /\ [][alive /\ ~alive' => HandlerRan /\ pending' = NoPending]_vars

C15_Witness ==
  /\ pc = "ioc_run"
  /\ pending["read"] = 1
  /\ Count(completed, "read") = MaxReads
  /\ alive
  /\ use_count = 1

\* the host given to run, and that host with the port of the peer
DeribitHost ==
  <<"w", "w", "w", ".", "d", "e", "r", "i", "b", "i", "t", ".", "c", "o", "m">>

DeribitHostPort == DeribitHost \o <<":", "4", "4", "3">>

\* C16: host_ is set by run to the host given and changed afterwards only by
\* the handler of the successful connect, which appends ":" and the port of
\* the peer; every other step leaves it alone; the WebSocket handshake is
\* issued with that host-and-port as its authority and "/ws/api/v2" as its
\* target; instrument_ is set by run and never changed afterwards.
C16_HostIdentityChangedOnce ==
  /\ [][host_' # host_ =>
          \/ pc = "start" /\ host_' = DeribitHost
          \/ /\ HandlerRan
             /\ Ran.op = "connect"
             /\ Ran.ec = Success
             /\ host_ = DeribitHost]_vars
  /\ [][HandlerRan /\ Ran.op = "connect" /\ Ran.ec = Success =>
          host_' = DeribitHostPort]_vars
  /\ [](Count(completed, "connect") <= 1)
  /\ [](\A i \in 1..Len(issued) :
          issued[i].op = "handshake" =>
            /\ issued[i].authority = DeribitHostPort
            /\ issued[i].authority = host_
            /\ issued[i].target = <<"/", "w", "s", "/", "a", "p", "i", "/", "v", "2">>)
  /\ [][instrument_' # instrument_ =>
          pc = "start" /\ instrument_' = instrument']_vars

C16_Witness ==
  /\ Count(issued, "handshake") = 1
  /\ host_ = DeribitHostPort
  /\ instrument_ = instrument
  /\ Count(completed, "read") >= 1

\* C17: at most one operation of any kind is outstanding; a read and the
\* write are never outstanding together; no read is issued before the
\* write has completed with success, and the first read is issued by the
\* handler of that completion.
C17_OneOperationOutstanding ==
  /\ [](Outstanding(pending) <= 1)
  /\ [](~(pending["read"] > 0 /\ pending["write"] > 0))
  /\ [](Count(issued, "read") > 0 => Succeeded("write"))
  /\ [][Issues("read") /\ Count(issued, "read") = 0 =>
          /\ HandlerRan
          /\ Ran.op = "write"
          /\ Ran.ec = Success
          /\ pending["write"] = 1
          /\ pending'["write"] = 0]_vars

C17_Witness ==
  /\ Outstanding(pending) = 1
  /\ pending["read"] = 1
  /\ Succeeded("write")
  /\ Count(issued, "read") = 1

\* C18: once the session is Failed nothing is outstanding, the event loop
\* returns and the process ends with the success status; the failure status
\* is given only for an empty instrument or an exception caught by main.
C18_FailedSessionExitsWithSuccess ==
  /\ [](State = "Failed" => pending = NoPending)
  /\ [](State = "Failed" /\ pc = "exit" => exit_status = "EXIT_SUCCESS")
  /\ [](exit_status = "EXIT_FAILURE" =>
          /\ instrument = <<>> \/ SetupThrew
          /\ State = "Init"
          /\ issued = <<>>)
  /\ (State = "Failed") ~> (pc = "exit" /\ exit_status = "EXIT_SUCCESS")

C18_Witness ==
  /\ pc = "exit"
  /\ exit_status = "EXIT_SUCCESS"
  /\ State = "Failed"
  /\ ReportedAs("read")
  /\ Count(completed, "read") = MaxReads

\* the stages in which a session is being set up
SetupStages ==
  { "Resolving", "Connecting", "SecureHandshaking", "ProtocolHandshaking",
    "Subscribing" }

\* a message is delivered and the next read is started
ReadsOn ==
  /\ HandlerRan
  /\ Ran.op = "read"
  /\ Ran.ec = Success
  /\ Issues("read")

\* C19: with every operation issued completing and every handler run, a
\* session in one of the setup stages reaches Streaming or Failed; every
\* delivered message is followed at once by a new read; and a started
\* session in which no operation ever fails reaches Streaming and goes on
\* delivering messages and starting reads for ever.
C19_SetupEndsAndReadingGoesOn ==
  /\ (State \in SetupStages) ~> (State \in {"Streaming", "Failed"})
  /\ [][HandlerRan /\ Ran.op = "read" /\ Ran.ec = Success =>
          pending'["read"] = 1 /\ State' = "Streaming"]_vars
  /\ ([]~ErrorReported /\ <>(pc = "ioc_run")) =>
       (<>(State = "Streaming") /\ []<><<ReadsOn>>_vars)

C19_Witness ==
  /\ State = "Streaming"
  /\ ~ErrorReported
  /\ Count(completed, "read") = MaxReads
  /\ Count(issued, "read") = MaxReads + 1

====
